---- MODULE Spec2Model ----
(***************************************************************************)
(* Collection pipeline of moltbook-observatory (src/collector/main.py):    *)
(* URL resolution, rate limiter, bounded-concurrency fan-out, the          *)
(* fetch-with-retry loop and the SQLite store with content-derived row     *)
(* identities.  One worker per endpoint descriptor; an action is the code  *)
(* a coroutine runs between two suspension points of the event loop.       *)
(***************************************************************************)
EXTENDS Integers, Sequences, FiniteSets, TLC

(* ---------------------------- bounds ----------------------------------- *)
MaxRetriesCfg == 2        \* largest MOLTBOOK_MAX_RETRIES explored
MaxConcurrencyCfg == 2    \* largest MOLTBOOK_MAX_CONCURRENCY explored
MaxClock == 2             \* last tick of the clock the run can observe
MaxLiveRetries == 1       \* largest MOLTBOOK_MAX_RETRIES of the runs followed to their end
MaxAttempt == 4           \* largest attempt compute_backoff_s is called with

(* ---------------------- values of the program -------------------------- *)
\* Python's None where an integer status is expected (status_code: Optional[int])
None == 0
\* Python's None where a payload is expected (Optional[Dict[str, Any]])
NoData == "None"
\* error: Optional[str]; the strings the code formats are kept as their parts
NoError == [prefix |-> "", code |-> None, kind |-> "", msglen |-> 0]
\* str(e)[:200]
MsgCap == 200

Min(a, b) == IF a < b THEN a ELSE b

\* f"auth_status:{status_code}" and the other status-carrying error strings
StatusError(prefix, status_code) ==
    [prefix |-> prefix, code |-> status_code, kind |-> "", msglen |-> 0]

\* f"network:{type(e).__name__}" and f"json_parse:{type(je).__name__}"
KindError(prefix, kind) ==
    [prefix |-> prefix, code |-> None, kind |-> kind, msglen |-> 0]

\* f"unexpected:{type(e).__name__}:{str(e)[:200]}" (the message by its length)
UnexpectedError(kind, msglen) ==
    [prefix |-> "unexpected", code |-> None, kind |-> kind,
     msglen |-> Min(msglen, MsgCap)]

(* --------------------------- URL resolver ------------------------------ *)
Lit(s) == [t |-> "lit", v |-> s]
Ph(k) == [t |-> "ph", v |-> k]

\* EndpointSpec(name, path_template, params); a template is its sequence of
\* literal pieces and {placeholders}, params a function from keys to values
EndpointSpec(name, path_template, params) ==
    [name |-> name, path_template |-> path_template, params |-> params]

NoParams == [k \in {} |-> ""]

\* str.format(**params) raises KeyError on a placeholder without parameter
FormatRaises(path_template, params) ==
    \E i \in 1..Len(path_template) :
        /\ path_template[i].t = "ph"
        /\ path_template[i].v \notin DOMAIN params

Format(path_template, params) ==
    [i \in 1..Len(path_template) |->
        IF path_template[i].t = "ph"
        THEN params[path_template[i].v]
        ELSE path_template[i].v]

build_url(base_url, path_template, params) ==
    LET path == Format(path_template, params)
        base == IF base_url[Len(base_url)] # "/"
                THEN Append(base_url, "/") ELSE base_url
        rest == IF Len(path) > 0 /\ path[1] = "/" THEN Tail(path) ELSE path
    IN  base \o rest

(* ------------------------ inputs of one run ---------------------------- *)
Trending == EndpointSpec("trending", <<Lit("/"), Lit("trending")>>, NoParams)
TrendingBare == EndpointSpec("trending", <<Lit("trending")>>, NoParams)
Posts == EndpointSpec("posts",
            <<Lit("/"), Lit("submolt"), Lit("/"), Ph("name"), Lit("/"), Lit("posts")>>,
            [k \in {"name"} |-> "x"])
PostsNoParam == EndpointSpec("posts",
            <<Lit("/"), Lit("submolt"), Lit("/"), Ph("name"), Lit("/"), Lit("posts")>>,
            NoParams)

\* MOLTBOOK_ENDPOINTS_JSON: distinct endpoints, two descriptors resolving to
\* the same name and URL, and a descriptor whose placeholder has no parameter
Catalogs == { <<Trending, Posts>>, <<Trending, TrendingBare>>, <<Trending, PostsNoParam>> }

\* CollectorConfig is a plain dataclass: every integer is accepted
Configs ==
    { [base_url |-> b, max_retries |-> r, max_concurrency |-> c, rps_per_host |-> 1] :
        b \in {<<"https://h">>}, r \in 0..MaxRetriesCfg, c \in 0..MaxConcurrencyCfg }
    \cup { [base_url |-> <<"https://h", "/">>, max_retries |-> 1, max_concurrency |-> 1,
            rps_per_host |-> 1] }
    \cup { [base_url |-> <<"https://h">>, max_retries |-> 1, max_concurrency |-> 1,
            rps_per_host |-> 0] }

\* status codes a server can answer with
StatusCodes == {200, 301, 401, 403, 404, 429, 500}
\* response bodies: a JSON object, the JSON text null, and text that is no JSON
\* (the code reads the body of a 2xx response only)
Bodies == {"obj", "null", "not-json"}
NetworkKinds == {"ConnectTimeout"}
UnexpectedKinds == {"TooManyRedirects"}
MsgLens == {12, 250}

\* raise_for_status() as it was before httpx 0.23.1: 4xx and 5xx only
RaiseForStatusRaises_ClientServerOnly(status_code) ==
    400 <= status_code /\ status_code <= 599

\* Response.raise_for_status(): raises HTTPStatusError unless 2xx
IsSuccess(status_code) == 200 <= status_code /\ status_code <= 299
RaiseForStatusRaises(status_code) == ~IsSuccess(status_code)

\* what `await client.get(url)` can do: answer, or raise
Responses ==
    { [type |-> "status", status_code |-> s, body |-> b, kind |-> "", msglen |-> 0] :
        s \in {c \in StatusCodes : IsSuccess(c)}, b \in Bodies }
    \cup { [type |-> "status", status_code |-> s, body |-> "", kind |-> "", msglen |-> 0] :
        s \in {c \in StatusCodes : ~IsSuccess(c)} }
    \cup { [type |-> "network", status_code |-> None, body |-> "", kind |-> k, msglen |-> 0] :
        k \in NetworkKinds }
    \cup { [type |-> "unexpected", status_code |-> None, body |-> "", kind |-> k, msglen |-> m] :
        k \in UnexpectedKinds, m \in MsgLens }

\* no call of client.get has returned yet
NoResponse == [type |-> "none", status_code |-> None, body |-> "", kind |-> "", msglen |-> 0]

\* resp.json(): raises on text that is no JSON, None for null, else the object
JsonRaises(body) == body = "not-json"
Json(body) == IF body = "null" THEN NoData ELSE body

(* ------------------------------ backoff -------------------------------- *)
\* durations are in tenths of a second, jitter_ratio and the value u of
\* random.random() in hundredths (0 <= u < 100); the value returned is in
\* 1/10000 of a tenth of a second, so that the arithmetic is exact
Max(a, b) == IF a > b THEN a ELSE b

RECURSIVE Pow2(_)
Pow2(n) == IF n = 0 THEN 1 ELSE 2 * Pow2(n - 1)

\* exp = min(cap, base * (2 ** max(0, attempt - 1)))
BackoffExp(attempt_no, base, cap) == Min(cap, base * Pow2(Max(0, attempt_no - 1)))

\* compute_backoff_s, with the draw of random.random() as a parameter
compute_backoff_s(attempt_no, base, cap, jitter_ratio, u) ==
    LET exp == BackoffExp(attempt_no, base, cap)
        jitter == exp * jitter_ratio * u
    IN  exp * 10000 + jitter

\* MOLTBOOK_BACKOFF_BASE_S, MOLTBOOK_BACKOFF_CAP_S, MOLTBOOK_JITTER_RATIO: any
\* float is accepted; the values random.random() can return
BackoffBases == {-8, 0, 8}
BackoffCaps == {0, 20, 300}
JitterRatios == {-25, 0, 25}
Draws == {0, 50, 99}

\* no call of compute_backoff_s yet
NoDelay == [attempt |-> 0, base |-> 0, cap |-> 0, jitter_ratio |-> 0, u |-> 0, total |-> 0]

(* ------------------------------ state ---------------------------------- *)
VARIABLES
    cfg,          \* the CollectorConfig of the run
    specs,        \* the endpoint catalog
    main,         \* run_once: "setup", "gather", "completed" (printed ok/total),
                  \* "failed" (an exception left run_once)
    report,       \* the printed <<ok, total>>
    pc,           \* position of each worker coroutine
    url,          \* url of each worker, once resolved
    attempt,      \* loop variable of fetch_json_with_retries
    data,         \* value returned by fetch_json_with_retries
    resp,         \* what client.get last did for each worker
    sem,          \* free slots of the asyncio.Semaphore
    lock,         \* holder of RateLimiter._lock, 0 when free
    last_ts,      \* RateLimiter._last_ts
    wake,         \* end of the limiter sleep of each worker
    clock,        \* time.monotonic() / utc_now_iso(), in ticks
    request_log,  \* rows of table request_log
    raw_events,   \* rows of table raw_events
    store,        \* "none" until run_once has built its SQLiteStore, then "open"
    t0,           \* t0 of each worker: time.monotonic() when limiter.wait() returned
    starts,       \* the times at which client.get was called, in order
    delay         \* the last call of compute_backoff_s: its arguments, the value
                  \* random.random() drew and the value returned

vars == <<cfg, specs, main, report, pc, url, attempt, data, resp, sem, lock, last_ts,
          wake, clock, request_log, raw_events, store, t0, starts, delay>>

Workers == 1..Len(specs)

\* RateLimiter._min_interval = 1.0 / rps_per_host, in ticks of the clock; a
\* tick is also the resolution of the timestamps utc_now_iso() returns
min_interval == 1

NoUrl == <<>>

\* rows a run of the day before has left in the database file
PriorLog ==
    { [ts |-> 0, endpoint_name |-> "trending", url |-> <<"https://h", "/", "trending">>,
       status_code |-> 200, elapsed_ms |-> 0, attempt |-> 1, error |-> NoError] }
PriorEvents ==
    { [ts |-> 0, endpoint_name |-> "trending", url |-> <<"https://h", "/", "trending">>,
       payload_json |-> "obj"] }

\* the state when run_once is called, for a set of configurations, a reading
\* of the clock and the contents the database file can have
Boot(configs, now, dbs) ==
    /\ cfg \in configs
    /\ specs \in Catalogs
    /\ main = "setup"
    /\ store = "none"
    /\ t0 = [w \in 1..Len(specs) |-> 0]
    /\ starts = <<>>
    /\ delay = NoDelay
    /\ report = <<0, 0>>
    /\ pc = [w \in 1..Len(specs) |-> "start"]
    /\ url = [w \in 1..Len(specs) |-> NoUrl]
    /\ attempt = [w \in 1..Len(specs) |-> 0]
    /\ data = [w \in 1..Len(specs) |-> NoData]
    /\ resp = [w \in 1..Len(specs) |-> NoResponse]
    /\ sem = 0
    /\ lock = 0
    /\ last_ts = 0
    /\ wake = [w \in 1..Len(specs) |-> 0]
    /\ clock = now
    /\ \E db \in dbs : request_log = db[1] /\ raw_events = db[2]

\* the process is older than one interval of the limiter; the database file
\* is new or has the rows of earlier runs
Init == Boot(Configs, min_interval, {<<{}, {}>>, <<PriorLog, PriorEvents>>})

(* ------------------------------ store ---------------------------------- *)
\* the tables dropped and created again
init_db_Recreate(rows) == {}

\* SQLiteStore._init_db: CREATE TABLE IF NOT EXISTS keeps the rows of a table
\* that exists
init_db(rows) == rows

\* the id of a request_log row: sha256 of ts|endpoint|url|attempt|status|error
\* (elapsed_ms is no part of it)
RequestKey(q) == <<q.ts, q.endpoint_name, q.url, q.attempt, q.status_code, q.error>>

\* a plain INSERT into a table without primary key
log_request_Insert(log, ts, endpoint_name, u, status_code, elapsed_ms, att, error) ==
    log \cup { [ts |-> ts, endpoint_name |-> endpoint_name, url |-> u,
                status_code |-> status_code, elapsed_ms |-> elapsed_ms,
                attempt |-> att, error |-> error] }

\* the failures that are retried not logged
log_request_TerminalOnly(log, ts, endpoint_name, u, status_code, elapsed_ms, att, error) ==
    IF error.prefix \in {"retryable_status", "network"}
    THEN log
    ELSE log \cup { [ts |-> ts, endpoint_name |-> endpoint_name, url |-> u,
                     status_code |-> status_code, elapsed_ms |-> elapsed_ms,
                     attempt |-> att, error |-> error] }

\* SQLiteStore.log_request: INSERT OR IGNORE keeps the row that has the id
log_request(log, ts, endpoint_name, u, status_code, elapsed_ms, att, error) ==
    LET row == [ts |-> ts, endpoint_name |-> endpoint_name, url |-> u,
                status_code |-> status_code, elapsed_ms |-> elapsed_ms,
                attempt |-> att, error |-> error]
    IN  IF \E q \in log : RequestKey(q) = RequestKey(row)
        THEN log
        ELSE log \cup {row}

\* the id of a raw_events row: sha256 of endpoint|url|ts|sha256(payload_json)
EventKey(e) == <<e.endpoint_name, e.url, e.ts, e.payload_json>>

\* SQLiteStore.store_payload: INSERT OR IGNORE
store_payload(events, ts, endpoint_name, u, payload) ==
    LET row == [ts |-> ts, endpoint_name |-> endpoint_name, url |-> u,
                payload_json |-> payload]
    IN  IF \E e \in events : EventKey(e) = EventKey(row)
        THEN events
        ELSE events \cup {row}

(* --------------------------- rate limiter ------------------------------ *)
\* the lock never seen as taken
Locked_Never == FALSE

\* asyncio.Lock.locked(): `async with self._lock` suspends the caller
Locked == lock # 0

\* the sleep given the time that has passed instead of the time that is left
SleepFor_Elapsed(elapsed) == elapsed

\* the argument of asyncio.sleep in wait()
SleepFor(elapsed) == min_interval - elapsed

\* RateLimiter.wait() from the acquisition of the lock to its first
\* suspension point: the sleep (lock held) or the return into client.get
LimiterBody(w) ==
    LET now == clock
        elapsed == now - last_ts
    IN  IF elapsed < min_interval
        THEN /\ lock' = w
             /\ wake' = [wake EXCEPT ![w] = now + SleepFor(elapsed)]
             /\ pc' = [pc EXCEPT ![w] = "limiter_sleep"]
             /\ UNCHANGED <<last_ts, t0, starts>>
        ELSE /\ last_ts' = now
             /\ lock' = 0
             /\ t0' = [t0 EXCEPT ![w] = now]
             /\ starts' = Append(starts, now)
             /\ pc' = [pc EXCEPT ![w] = "get"]
             /\ UNCHANGED wake

(* ------------------------- fetch-with-retry ---------------------------- *)
\* one slot for each descriptor of the catalog
Semaphore_PerWorker(value) == Len(specs)

\* asyncio.Semaphore(cfg.max_concurrency): the slots there are
Semaphore(value) == value

\* the slot kept when the worker returns
Release_Leak(s) == s

\* asyncio.Semaphore.release(), on leaving `async with sem`
Release(s) == s + 1

\* a slot handed out when none is left
HasSlot_OffByOne(s) == s >= 0

\* asyncio.Semaphore.acquire() returns at once while the value is positive
HasSlot(s) == s > 0

\* range(1, cfg.max_retries + 2): one iteration too many
LoopExhausted_OneMore(k) == k > cfg.max_retries + 1

\* `for attempt in range(1, cfg.max_retries + 1)` has no value k
LoopExhausted(k) == k > cfg.max_retries

\* the for statement of fetch_json_with_retries taking value k, worker w
\* holding a slot that leaves s slots free: either range(1, max_retries + 1)
\* is exhausted (return None, the worker leaves `async with sem`), or the
\* iteration starts with limiter.wait()
EnterLoop(w, k, s) ==
    IF LoopExhausted(k)
    THEN /\ pc' = [pc EXCEPT ![w] = "done"]
         /\ data' = [data EXCEPT ![w] = NoData]
         /\ sem' = Release(s)
         /\ UNCHANGED <<attempt, lock, last_ts, wake, t0, starts>>
    ELSE /\ attempt' = [attempt EXCEPT ![w] = k]
         /\ sem' = s
         /\ UNCHANGED data
         /\ IF ~Locked
            THEN LimiterBody(w)
            ELSE /\ pc' = [pc EXCEPT ![w] = "limiter"]
                 /\ UNCHANGED <<lock, last_ts, wake, t0, starts>>

\* gather schedules the first step of every worker, in catalog order, for
\* the same iteration of the event loop: they all run before any response,
\* timer or wake-up is processed
AllStarted == \A w \in Workers : pc[w] # "start"

\* worker(spec) from its first step: build_url, then `async with sem`
Start(w) ==
    /\ main = "gather"
    /\ pc[w] = "start"
    /\ \A v \in 1..(w - 1) : pc[v] # "start"
    /\ UNCHANGED <<cfg, specs, store, delay, main, report, resp, clock, request_log, raw_events>>
    /\ IF FormatRaises(specs[w].path_template, specs[w].params)
       THEN /\ pc' = [pc EXCEPT ![w] = "raised"]
            /\ UNCHANGED <<url, attempt, data, sem, lock, last_ts, wake, t0, starts>>
       ELSE /\ url' = [url EXCEPT ![w] =
                         build_url(cfg.base_url, specs[w].path_template, specs[w].params)]
            /\ IF HasSlot(sem)
               THEN EnterLoop(w, 1, sem - 1)
               ELSE /\ pc' = [pc EXCEPT ![w] = "sem"]
                    /\ UNCHANGED <<attempt, data, sem, lock, last_ts, wake, t0, starts>>

\* a worker queued on the semaphore gets a slot
SemAcquire(w) ==
    /\ pc[w] = "sem"
    /\ AllStarted
    /\ HasSlot(sem)
    /\ EnterLoop(w, 1, sem - 1)
    /\ UNCHANGED <<cfg, specs, store, delay, main, report, url, resp, clock, request_log, raw_events>>

\* a worker queued on the limiter's lock gets it
LimiterAcquire(w) ==
    /\ pc[w] = "limiter"
    /\ AllStarted
    /\ ~Locked
    /\ LimiterBody(w)
    /\ UNCHANGED <<cfg, specs, store, delay, main, report, url, attempt, data, resp, sem, clock,
                   request_log, raw_events>>

\* the limiter's sleep ends: _last_ts = time.monotonic(), lock released
LimiterWake(w) ==
    /\ pc[w] = "limiter_sleep"
    /\ AllStarted
    /\ lock = w
    /\ clock >= wake[w]
    /\ last_ts' = clock
    /\ lock' = 0
    /\ t0' = [t0 EXCEPT ![w] = clock]
    /\ starts' = Append(starts, clock)
    /\ pc' = [pc EXCEPT ![w] = "get"]
    /\ UNCHANGED <<cfg, specs, store, delay, main, report, url, attempt, data, resp, sem, wake, clock,
                   request_log, raw_events>>

\* 403 left out of the non-retryable statuses
IsAuth_Only401(status_code) == status_code = 401

IsAuth(status_code) == status_code \in {401, 403}

IsRetryable(status_code) ==
    status_code = 429 \/ (500 <= status_code /\ status_code <= 599)

\* what an attempt does with the answer r of client.get, branch by branch:
\* the status and error it logs, whether it sleeps and goes on to the next
\* iteration, and the value it returns otherwise
AuthOutcome(r) ==
    [status_code |-> r.status_code,
     error |-> StatusError("auth_status", r.status_code),
     retry |-> FALSE, value |-> NoData]

RetryableOutcome(r) ==
    [status_code |-> r.status_code,
     error |-> StatusError("retryable_status", r.status_code),
     retry |-> TRUE, value |-> NoData]

\* except httpx.HTTPStatusError, raised by resp.raise_for_status()
HTTPStatusErrorOutcome(r) ==
    [status_code |-> r.status_code,
     error |-> StatusError("http_status", r.status_code),
     retry |-> FALSE, value |-> NoData]

\* "Log JSON parse failures and continue": the failure retried, not returned
JsonErrorOutcome_Continue(r) ==
    [status_code |-> r.status_code,
     error |-> KindError("json_parse", "JSONDecodeError"),
     retry |-> TRUE, value |-> NoData]

\* the inner try around resp.json()
JsonErrorOutcome(r) ==
    [status_code |-> r.status_code,
     error |-> KindError("json_parse", "JSONDecodeError"),
     retry |-> FALSE, value |-> NoData]

SuccessOutcome(r) ==
    [status_code |-> r.status_code, error |-> NoError,
     retry |-> FALSE, value |-> Json(r.body)]

\* except (httpx.TimeoutException, httpx.NetworkError)
NetworkOutcome(r) ==
    [status_code |-> None, error |-> KindError("network", r.kind),
     retry |-> TRUE, value |-> NoData]

\* the unexpected failure handled like a network failure: sleep and retry
UnexpectedOutcome_Retry(r) ==
    [status_code |-> None, error |-> UnexpectedError(r.kind, r.msglen),
     retry |-> TRUE, value |-> NoData]

\* except Exception
UnexpectedOutcome(r) ==
    [status_code |-> None, error |-> UnexpectedError(r.kind, r.msglen),
     retry |-> FALSE, value |-> NoData]

Outcome(r) ==
    IF r.type = "network" THEN NetworkOutcome(r)
    ELSE IF r.type = "unexpected" THEN UnexpectedOutcome(r)
    ELSE IF IsAuth(r.status_code) THEN AuthOutcome(r)
    ELSE IF IsRetryable(r.status_code) THEN RetryableOutcome(r)
    ELSE IF RaiseForStatusRaises(r.status_code) THEN HTTPStatusErrorOutcome(r)
    ELSE IF JsonRaises(r.body) THEN JsonErrorOutcome(r)
    ELSE SuccessOutcome(r)

\* the payload stored without the test on None
StoreIfData_Always(events, ts, endpoint_name, u, d) ==
    store_payload(events, ts, endpoint_name, u, d)

\* worker: `if data is not None: store.store_payload(spec.name, url, data)`
StoreIfData(events, ts, endpoint_name, u, d) ==
    IF d # NoData THEN store_payload(events, ts, endpoint_name, u, d) ELSE events

\* client.get returns or raises: the rest of the iteration up to the backoff
\* sleep, or up to the return and on through the worker's store_payload and
\* release of the semaphore (no suspension point in between)
Response(w, r) ==
    LET o == Outcome(r)
        elapsed_ms == clock - t0[w]
        ts == clock
    IN  /\ pc[w] = "get"
        /\ AllStarted
        /\ resp' = [resp EXCEPT ![w] = r]
        /\ request_log' = log_request(request_log, ts, specs[w].name, url[w],
                                      o.status_code, elapsed_ms, attempt[w], o.error)
        /\ IF o.retry
           THEN /\ pc' = [pc EXCEPT ![w] = "backoff"]
                /\ UNCHANGED <<data, sem, raw_events>>
           ELSE /\ pc' = [pc EXCEPT ![w] = "done"]
                /\ data' = [data EXCEPT ![w] = o.value]
                /\ raw_events' = StoreIfData(raw_events, ts, specs[w].name,
                                             url[w], o.value)
                /\ sem' = Release(sem)
        /\ UNCHANGED <<cfg, specs, store, delay, main, report, url, attempt, lock, last_ts, wake, clock,
                       t0, starts>>

\* the backoff sleep ends: `continue` / end of the except block
BackoffWake(w) ==
    /\ pc[w] = "backoff"
    /\ AllStarted
    /\ EnterLoop(w, attempt[w] + 1, sem)
    /\ UNCHANGED <<cfg, specs, store, delay, main, report, url, resp, clock, request_log, raw_events>>

(* ---------------------------- orchestrator ----------------------------- *)
\* RateLimiter.__init__ raises ValueError
RateRejected(rps_per_host) == rps_per_host <= 0

\* run_once up to gather: SQLiteStore(path) and its _init_db, then
\* RateLimiter(rps_per_host), then Semaphore(max_concurrency)
Setup ==
    /\ main = "setup"
    /\ store' = "open"
    /\ request_log' = init_db(request_log)
    /\ raw_events' = init_db(raw_events)
    /\ IF RateRejected(cfg.rps_per_host)
       THEN /\ main' = "failed"
            /\ UNCHANGED sem
       ELSE /\ main' = "gather"
            /\ sem' = Semaphore(cfg.max_concurrency)
    /\ UNCHANGED <<cfg, specs, report, pc, url, attempt, data, resp, lock, last_ts, wake,
                   clock, t0, starts, delay>>

Ok == Cardinality({w \in Workers : data[w] # NoData})

\* asyncio.gather returned: ok/total is printed
Report ==
    /\ main = "gather"
    /\ \A w \in Workers : pc[w] = "done"
    /\ main' = "completed"
    /\ report' = <<Ok, Len(specs)>>
    /\ UNCHANGED <<cfg, specs, store, delay, pc, url, attempt, data, resp, sem, lock, last_ts, wake,
                   clock, request_log, raw_events, t0, starts>>

\* gather (no return_exceptions) re-raises the first worker exception in
\* run_once; asyncio.run then cancels the workers still pending, which leave
\* their `async with` blocks: the slots and the limiter's lock are released
Propagate ==
    /\ main = "gather"
    /\ AllStarted
    /\ \E w \in Workers : pc[w] = "raised"
    /\ main' = "failed"
    /\ pc' = [w \in Workers |->
                IF pc[w] \in {"done", "raised"} THEN pc[w] ELSE "cancelled"]
    /\ sem' = cfg.max_concurrency
    /\ lock' = 0
    /\ UNCHANGED <<cfg, specs, store, delay, report, url, attempt, data, resp, last_ts, wake,
                   clock, request_log, raw_events, t0, starts>>

\* time passes
Tick ==
    /\ clock < MaxClock
    /\ clock' = clock + 1
    /\ UNCHANGED <<cfg, specs, store, delay, main, report, pc, url, attempt, data, resp, sem, lock,
                   last_ts, wake, request_log, raw_events, t0, starts>>

Next ==
    \/ Setup
    \/ \E w \in Workers : Start(w)
    \/ \E w \in Workers : SemAcquire(w)
    \/ \E w \in Workers : LimiterAcquire(w)
    \/ \E w \in Workers : LimiterWake(w)
    \/ \E w \in Workers : \E r \in Responses : Response(w, r)
    \/ \E w \in Workers : BackoffWake(w)
    \/ Report
    \/ Propagate
    \/ Tick

Spec == Init /\ [][Next]_vars

\* a call of compute_backoff_s
ComputeBackoff(attempt_no, base, cap, jitter_ratio, u) ==
    /\ delay' = [attempt |-> attempt_no, base |-> base, cap |-> cap,
                 jitter_ratio |-> jitter_ratio, u |-> u,
                 total |-> compute_backoff_s(attempt_no, base, cap, jitter_ratio, u)]
    /\ UNCHANGED <<cfg, specs, store, main, report, pc, url, attempt, data, resp, sem,
                   lock, last_ts, wake, clock, request_log, raw_events, t0, starts>>

NextBackoff ==
    \E attempt_no \in 1..MaxAttempt : \E base \in BackoffBases : \E cap \in BackoffCaps :
        \E jitter_ratio \in JitterRatios : \E u \in Draws :
            ComputeBackoff(attempt_no, base, cap, jitter_ratio, u)

\* a run that is about to start, with the largest number of retries
InitBackoff ==
    Boot({c \in Configs : c.max_retries = MaxRetriesCfg /\ c.max_concurrency = 1},
         min_interval, {<<{}, {}>>})

\* compute_backoff_s applied to every input of the sets above
BackoffSpec == InitBackoff /\ [][NextBackoff]_vars

\* a timer of the event loop is pending: the limiter's sleep of some worker
Sleeping == \E w \in Workers : pc[w] = "limiter_sleep" /\ wake[w] > clock

\* time passes up to the next timer; every limiter sleep follows a release,
\* so the clock stays below one interval per attempt of the run
TickLive ==
    /\ Sleeping
    /\ clock < min_interval * (1 + Len(specs) * cfg.max_retries)
    /\ clock' = clock + 1
    /\ UNCHANGED <<cfg, specs, store, delay, main, report, pc, url, attempt, data, resp, sem,
                   lock, last_ts, wake, request_log, raw_events, t0, starts>>

\* the runs followed to their end make every attempt of every worker: their
\* retries are bounded apart; they start from a new database file, in a
\* process whose clock has not yet reached one interval
InitLive ==
    Boot({c \in Configs : c.max_retries <= MaxLiveRetries}, 0, {<<{}, {}>>})

NextLive ==
    \/ Setup
    \/ \E w \in Workers : Start(w)
    \/ \E w \in Workers : SemAcquire(w)
    \/ \E w \in Workers : LimiterAcquire(w)
    \/ \E w \in Workers : LimiterWake(w)
    \/ \E w \in Workers : \E r \in Responses : Response(w, r)
    \/ \E w \in Workers : BackoffWake(w)
    \/ Report
    \/ Propagate
    \/ TickLive

\* the event loop runs every callback that is ready, its timers fire, and
\* client.get returns or raises within cfg.timeout_s
LiveSpec == InitLive /\ [][NextLive]_vars /\ WF_vars(NextLive)

TypeOK ==
    /\ main \in {"setup", "gather", "completed", "failed"}
    /\ store \in {"none", "open"}
    /\ sem \in 0..cfg.max_concurrency
    /\ lock \in 0..Len(specs)
    /\ clock \in 0..MaxClock

(* ------------------------------ reports -------------------------------- *)
\* the status alone decides, the error is not looked at
RowSucceeded_StatusOnly(q) == 200 <= q.status_code /\ q.status_code < 300

\* features.py: row["error"] is None and row["status_code"] and
\* 200 <= row["status_code"] < 300
RowSucceeded(q) ==
    /\ q.error = NoError
    /\ q.status_code # None
    /\ 200 <= q.status_code /\ q.status_code < 300

\* the loop over request_rows, counting each row as successful or as failed
RECURSIVE Tally(_, _)
Tally(request_rows, h) ==
    IF request_rows = {} THEN h
    ELSE LET row == CHOOSE q \in request_rows : TRUE
         IN  Tally(request_rows \ {row},
                   IF RowSucceeded(row)
                   THEN [h EXCEPT !.successful_requests = @ + 1]
                   ELSE [h EXCEPT !.failed_requests = @ + 1])

\* extract_weekly_features: the CollectionHealth of the rows of request_log
\* with week_start_utc <= ts_utc <= week_end_utc
CollectionHealth(log, week_start_utc, week_end_utc) ==
    LET request_rows == {q \in log : week_start_utc <= q.ts /\ q.ts <= week_end_utc}
    IN  Tally(request_rows,
              [total_requests |-> Cardinality(request_rows),
               successful_requests |-> 0, failed_requests |-> 0])

(* ------------------------- reading the state --------------------------- *)
\* spec.md section 3: the name of a descriptor is its unique identifier
UniqueEndpoint(w) == \A v \in Workers : v # w => specs[v].name # specs[w].name

\* the rows this run has added; outcome rows and event rows of the endpoint
\* of worker w among them
RunLog == request_log \ PriorLog
RunEvents == raw_events \ PriorEvents
Rows(w) == {q \in RunLog : q.endpoint_name = specs[w].name /\ q.url = url[w]}
RowsAt(w, k) == {q \in Rows(w) : q.attempt = k}
Events(w) == {e \in RunEvents : e.endpoint_name = specs[w].name /\ e.url = url[w]}

\* resp[w] is the answer to attempt[w], and the attempt has dealt with it
Answered(w) == pc[w] \in {"backoff", "done"} /\ resp[w] # NoResponse

IsRetryableAnswer(r) ==
    r.type = "network" \/ (r.type = "status" /\ IsRetryable(r.status_code))

IsParsedAnswer(r) ==
    r.type = "status" /\ IsSuccess(r.status_code) /\ ~JsonRaises(r.body)

\* client.get calls of worker w that have returned or raised
HttpAttempts(w) ==
    IF pc[w] \in {"limiter", "limiter_sleep", "get"} THEN attempt[w] - 1 ELSE attempt[w]

\* workers holding a slot of the semaphore: queued on the limiter's lock,
\* in the limiter's sleep, in client.get, or in the backoff sleep
InFlight == {w \in Workers : pc[w] \in {"limiter", "limiter_sleep", "get", "backoff"}}

\* positions of a worker inside `async with sem`
Holding(p) == p \in {"limiter", "limiter_sleep", "get", "backoff"}

RECURSIVE SumAttempts(_)
SumAttempts(n) == IF n = 0 THEN 0 ELSE HttpAttempts(n) + SumAttempts(n - 1)

(* ------------------------------ claims --------------------------------- *)
\* C1: a finished run of fetch_json_with_retries has written k outcome rows,
\* 1 <= k <= max_retries, k the attempt at which it ended, the rows carrying
\* the attempt numbers 1..k
C1_RowsOneToMaxRetries ==
    \A w \in Workers :
        (pc[w] = "done" /\ UniqueEndpoint(w)) =>
            LET n == Cardinality(Rows(w))
            IN  /\ 1 <= n /\ n <= cfg.max_retries
                /\ n = attempt[w]
                /\ {q.attempt : q \in Rows(w)} = 1..n

\* C2: a finished worker whose endpoint has an error-free 2xx outcome row has
\* exactly one RawEvent row with its endpoint name and URL
C2_SuccessHasOneEvent ==
    \A w \in Workers :
        (/\ pc[w] = "done"
         /\ UniqueEndpoint(w)
         /\ \E q \in Rows(w) : q.error = NoError /\ IsSuccess(q.status_code))
        => Cardinality(Events(w)) = 1

\* C3: every RawEvent row has an outcome row of the same endpoint name and
\* URL with no error and a 2xx status, written no later than the event; a
\* worker that was handed a payload to store got it from such an attempt
C3_EventHasSuccessOutcome ==
    /\ \A e \in raw_events :
          \E q \in request_log :
              /\ q.endpoint_name = e.endpoint_name
              /\ q.url = e.url
              /\ q.error = NoError
              /\ IsSuccess(q.status_code)
              /\ q.ts <= e.ts
    /\ \A w \in Workers :
          Events(w) # {} =>
              \E v \in Workers :
                  /\ specs[v].name = specs[w].name /\ url[v] = url[w]
                  /\ pc[v] = "done"
                  /\ IsParsedAnswer(resp[v])
                  /\ data[v] # NoData

C3_Witness ==
    /\ raw_events # {}
    /\ \E q \in request_log : q.error # NoError

\* C4: the number of rows of request_log equals the number of HTTP attempts
\* that have completed, whatever the catalog and the interleaving
C4_RowPerAttempt ==
    main # "failed" => Cardinality(RunLog) = SumAttempts(Len(specs))

\* C5: an attempt answered 401 or 403 leaves exactly one outcome row for that
\* attempt, with error auth_status:<code>; the fetch has returned None, no
\* further attempt is made and the endpoint has no RawEvent
C5_AuthRejectedIsTerminal ==
    \A w \in Workers :
        (/\ UniqueEndpoint(w)
         /\ Answered(w)
         /\ resp[w].type = "status"
         /\ resp[w].status_code \in {401, 403})
        => /\ pc[w] = "done"
           /\ data[w] = NoData
           /\ Events(w) = {}
           /\ Cardinality(RowsAt(w, attempt[w])) = 1
           /\ \A q \in RowsAt(w, attempt[w]) :
                 /\ q.status_code = resp[w].status_code
                 /\ q.error = StatusError("auth_status", resp[w].status_code)
           /\ \A q \in Rows(w) : q.attempt <= attempt[w]

C5_Witness ==
    \E w \in Workers :
        /\ UniqueEndpoint(w)
        /\ Answered(w)
        /\ resp[w].type = "status"
        /\ resp[w].status_code = 403
        /\ attempt[w] < cfg.max_retries

\* C6: when attempt k answers 2xx with a body that parses, after k-1
\* retryable failures, the endpoint has k outcome rows (k-1 with error
\* retryable_status or network, the last with no error), one RawEvent row,
\* and the payload is returned
C6_RetryThenSuccess ==
    \A w \in Workers :
        (UniqueEndpoint(w) /\ Answered(w) /\ IsParsedAnswer(resp[w]))
        => /\ Cardinality(Rows(w)) = attempt[w]
           /\ \A q \in Rows(w) :
                 IF q.attempt = attempt[w]
                 THEN q.error = NoError
                 ELSE q.error.prefix \in {"retryable_status", "network"}
           /\ Cardinality(Events(w)) = 1
           /\ data[w] = Json(resp[w].body)

C8_OtherStatusIsTerminal ==
    \A w \in Workers :
        (/\ UniqueEndpoint(w)
         /\ Answered(w)
         /\ resp[w].type = "status"
         /\ ~IsSuccess(resp[w].status_code)
         /\ resp[w].status_code \notin {401, 403, 429}
         /\ ~(500 <= resp[w].status_code /\ resp[w].status_code <= 599))
        => /\ pc[w] = "done"
           /\ data[w] = NoData
           /\ Cardinality(RowsAt(w, attempt[w])) = 1
           /\ \A q \in RowsAt(w, attempt[w]) :
                 /\ q.status_code = resp[w].status_code
                 /\ q.error = StatusError("http_status", resp[w].status_code)
           /\ \A q \in Rows(w) : q.attempt <= attempt[w]

C8_Witness ==
    \E w \in Workers :
        /\ UniqueEndpoint(w)
        /\ Answered(w)
        /\ resp[w].type = "status"
        /\ resp[w].status_code = 301
        /\ attempt[w] < cfg.max_retries

\* C9: a failure of client.get that is neither a status error nor a network
\* error leaves exactly one outcome row for the attempt, without status and
\* with error unexpected:<kind>:<message cut at 200>; the fetch has returned
\* None, no other attempt is made, and the worker has not raised: the run
\* fails only when a URL could not be resolved or the rate was rejected
C9_UnexpectedIsContained ==
    /\ \A w \in Workers :
          (UniqueEndpoint(w) /\ Answered(w) /\ resp[w].type = "unexpected")
          => /\ pc[w] = "done"
             /\ data[w] = NoData
             /\ Cardinality(RowsAt(w, attempt[w])) = 1
             /\ \A q \in RowsAt(w, attempt[w]) :
                   /\ q.status_code = None
                   /\ q.error.prefix = "unexpected"
                   /\ q.error.kind = resp[w].kind
                   /\ q.error.msglen = Min(resp[w].msglen, MsgCap)
             /\ \A q \in Rows(w) : q.attempt <= attempt[w]
    /\ (main = "failed" \/ \E w \in Workers : pc[w] \in {"raised", "cancelled"})
          => \/ \E v \in Workers : FormatRaises(specs[v].path_template, specs[v].params)
             \/ RateRejected(cfg.rps_per_host)

C9_Witness ==
    \E w \in Workers :
        /\ UniqueEndpoint(w)
        /\ Answered(w)
        /\ resp[w].type = "unexpected"
        /\ resp[w].msglen > MsgCap
        /\ attempt[w] < cfg.max_retries
        /\ \E v \in Workers : v # w /\ pc[v] \in {"limiter", "limiter_sleep", "get", "backoff"}

\* C10: a fetch whose max_retries attempts all failed retryably has returned
\* None, and its endpoint has exactly max_retries outcome rows, one per
\* attempt, each a retryable failure
C10_ExhaustionAddsNoRow ==
    \A w \in Workers :
        (/\ UniqueEndpoint(w)
         /\ pc[w] = "done"
         /\ resp[w] = NoResponse \/ IsRetryableAnswer(resp[w]))
        => /\ data[w] = NoData
           /\ Events(w) = {}
           /\ Cardinality(Rows(w)) = cfg.max_retries
           /\ {q.attempt : q \in Rows(w)} = 1..cfg.max_retries
           /\ \A q \in Rows(w) : q.error.prefix \in {"retryable_status", "network"}

C10_Witness ==
    \E w \in Workers :
        /\ UniqueEndpoint(w)
        /\ pc[w] = "done"
        /\ IsRetryableAnswer(resp[w])
        /\ cfg.max_retries = 2
        /\ Cardinality(Rows(w)) = 2

\* C11: the times at which client.get is called after limiter.wait(), over
\* all workers and attempts, are at least min_interval apart: the j-th comes
\* no sooner than (j - i) intervals after the i-th; and the request a worker
\* has in flight is the one wait() released at t0
C11_RequestsSpaced ==
    /\ \A i \in 1..Len(starts) : \A j \in 1..Len(starts) :
          i < j => starts[j] - starts[i] >= (j - i) * min_interval
    /\ Len(starts) > 0 => last_ts = starts[Len(starts)]
    /\ \A w \in Workers :
          pc[w] = "get" => \E i \in 1..Len(starts) : starts[i] = t0[w]

C11_Witness ==
    /\ Len(starts) >= 2
    /\ \E w \in Workers : pc[w] = "limiter_sleep" /\ wake[w] > clock
    /\ \E w \in Workers : pc[w] = "get"

\* C12: at most one worker is inside the critical section of wait(), the
\* sleep included, and it holds the lock; a worker enters the sleep only
\* from a free lock, and _last_ts is written only by a worker that leaves
\* wait(), which is the holder if the lock is held
C12_LimiterMutualExclusion ==
    [][ /\ Cardinality({w \in Workers : pc'[w] = "limiter_sleep"}) <= 1
        /\ \A w \in Workers : pc'[w] = "limiter_sleep" => lock' = w
        /\ \A w \in Workers :
              (pc[w] # "limiter_sleep" /\ pc'[w] = "limiter_sleep")
              => lock = 0 /\ last_ts' = last_ts
        /\ \A w \in Workers :
              (pc[w] # "get" /\ pc'[w] = "get")
              => lock \in {0, w} /\ lock' = 0 /\ last_ts' = clock
        /\ last_ts' # last_ts
              => \E w \in Workers : pc[w] # "get" /\ pc'[w] = "get"
      ]_vars

C12_Witness ==
    \E w \in Workers : \E v \in Workers :
        /\ pc[w] = "limiter_sleep" /\ lock = w
        /\ pc[v] = "limiter"

\* C13: the workers that hold a slot (in client.get, in the limiter or
\* queued for it, in the backoff sleep) are never more than max_concurrency,
\* and while the run gathers they are the slots the semaphore has handed out
C13_AtMostMaxConcurrency ==
    /\ Cardinality(InFlight) <= cfg.max_concurrency
    /\ main = "gather" => sem = cfg.max_concurrency - Cardinality(InFlight)

C13_Witness ==
    /\ cfg.max_concurrency >= 1
    /\ Cardinality(InFlight) = cfg.max_concurrency
    /\ \E w \in Workers : pc[w] = "sem"
    /\ \E w \in Workers : pc[w] = "get"

\* no descriptor of the catalog has a placeholder without parameter
Resolvable == \A v \in Workers : ~FormatRaises(specs[v].path_template, specs[v].params)

\* C14: once the fetch of an endpoint has returned None (rejected, failed
\* for good, out of attempts, unexpected error), in a catalog whose URLs all
\* resolve, the run still gets every worker to its end, every endpoint
\* having been attempted, and prints ok/total
C14_FailureIsIsolated ==
    (Resolvable /\ \E w \in Workers : pc[w] = "done" /\ data[w] = NoData)
    ~> (/\ main = "completed"
        /\ report = <<Ok, Len(specs)>>
        /\ \A v \in Workers : pc[v] = "done"
        /\ \A v \in Workers : cfg.max_retries >= 1 => attempt[v] >= 1)

C14_Witness ==
    /\ main = "completed"
    /\ \E w \in Workers : \E v \in Workers :
          /\ resp[w].type = "unexpected" /\ data[w] = NoData
          /\ pc[v] = "done" /\ data[v] # NoData
          /\ \E q \in Rows(w) : \E e \in Events(v) : q.ts < e.ts

\* C15: a worker whose URL could not be resolved is the only one that is
\* skipped: the run does not fail and no other worker is cancelled
C15_ResolutionFailureSkipsOne ==
    \A w \in Workers :
        pc[w] = "raised" =>
            /\ main # "failed"
            /\ \A v \in Workers : pc[v] # "cancelled"

\* C16: no worker is blocked for ever on the semaphore, whatever the
\* configuration: while a worker is queued for a slot, a slot is free or some
\* worker holds one, which it gives back when its fetch returns
C16_NoWorkerBlockedForever ==
    \A w \in Workers :
        (AllStarted /\ main = "gather" /\ pc[w] = "sem") =>
            HasSlot(sem) \/ InFlight # {}

\* C17: a configuration whose rate is not strictly positive is rejected
\* before run_once has built its store
C17_RejectedBeforeStore == RateRejected(cfg.rps_per_host) => store = "none"

\* what log_request is given besides the time it reads: endpoint, URL,
\* attempt, status and error; what store_payload is given
RequestContent(q) == <<q.endpoint_name, q.url, q.attempt, q.status_code, q.error>>
EventContent(e) == <<e.endpoint_name, e.url, e.payload_json>>

\* C18 as stated: two calls of log_request with the same endpoint, URL,
\* attempt, status and error leave one row, and so do two calls of
\* store_payload with the same endpoint, URL and payload
C18_OneRowPerContent ==
    /\ \A q1 \in RunLog : \A q2 \in RunLog :
          RequestContent(q1) = RequestContent(q2) => q1 = q2
    /\ \A e1 \in RunEvents : \A e2 \in RunEvents :
          EventContent(e1) = EventContent(e2) => e1 = e2

\* C18 amended: two calls with the same content that read the same
\* timestamp leave one row, the first: no two rows of a table have the same
\* id (timestamp and content), and every call that has returned has left its
\* content in the table, at a time between the request and now
C18_OneRowPerIdentity ==
    /\ \A q1 \in request_log : \A q2 \in request_log :
          RequestKey(q1) = RequestKey(q2) => q1 = q2
    /\ \A e1 \in raw_events : \A e2 \in raw_events :
          EventKey(e1) = EventKey(e2) => e1 = e2
    /\ \A w \in Workers :
          Answered(w) =>
              \E q \in RunLog :
                  /\ RequestContent(q) =
                        <<specs[w].name, url[w], attempt[w],
                          Outcome(resp[w]).status_code, Outcome(resp[w]).error>>
                  /\ t0[w] <= q.ts /\ q.ts <= clock

C18_Witness ==
    \E w \in Workers : \E v \in Workers :
        /\ w # v
        /\ Answered(w) /\ Answered(v)
        /\ specs[w].name = specs[v].name /\ url[w] = url[v]
        /\ attempt[w] = attempt[v] /\ resp[w] = resp[v]
        /\ t0[w] # t0[v]
        /\ Cardinality(Rows(w)) = 1

\* C19: no step of a run removes or changes a row of request_log or of
\* raw_events: the initialisation of a store that has rows, and every
\* insert, whether its id is new or taken, keep the rows there were
C19_RowsOnlyGrow ==
    [][request_log \subseteq request_log' /\ raw_events \subseteq raw_events']_vars

C19_Witness ==
    /\ store = "open"
    /\ PriorLog \subseteq request_log /\ PriorEvents \subseteq raw_events
    /\ RunEvents # {}
    /\ main = "completed"
    /\ Cardinality(RunLog) < SumAttempts(Len(specs))

\* C20: a worker that is in the limiter or in client.get for attempt k has
\* an outcome row (a retried failure) for each of its attempts 1..k-1,
\* written no later than the request of attempt k was released
C20_AttemptAfterRow ==
    \A w \in Workers :
        pc[w] \in {"limiter", "limiter_sleep", "get"} =>
            \A k \in 1..(attempt[w] - 1) :
                \E q \in RowsAt(w, k) :
                    /\ q.error.prefix \in {"retryable_status", "network"}
                    /\ pc[w] = "get" => q.ts <= t0[w]

C20_Witness ==
    \E w \in Workers : \E v \in Workers :
        /\ w # v
        /\ pc[w] = "get" /\ attempt[w] = 2
        /\ pc[v] = "sem"
        /\ \E q \in RowsAt(w, 1) : q.ts < t0[w]

\* C21: a worker is in the backoff sleep only after a retryable failure of
\* an attempt that is not the last one: attempt max_retries is followed by
\* no sleep
C21_BackoffOnlyBeforeRetry ==
    \A w \in Workers :
        pc[w] = "backoff" =>
            /\ IsRetryableAnswer(resp[w])
            /\ 1 <= attempt[w]
            /\ attempt[w] < cfg.max_retries

\* C22: the value compute_backoff_s returns has the exponential part
\* min(cap, base * 2^(attempt-1)), which does not decrease with the attempt,
\* is at least that part and at most cap * (1 + jitter_ratio)
C22_BackoffBounds ==
    delay # NoDelay =>
        LET exp == BackoffExp(delay.attempt, delay.base, delay.cap)
        IN  /\ exp = Min(delay.cap, delay.base * Pow2(delay.attempt - 1))
            /\ exp <= BackoffExp(delay.attempt + 1, delay.base, delay.cap)
            /\ delay.total >= exp * 10000
            /\ delay.total <= delay.cap * (10000 + delay.jitter_ratio * 100)

\* C23: when run_once has printed ok/total, total is the number of
\* descriptors and ok the number of workers whose fetch returned a payload,
\* which is the number of RawEvent rows the run has written
C23_ReportCounts ==
    main = "completed" =>
        /\ report[2] = Len(specs)
        /\ report[1] = Cardinality({w \in Workers : data[w] # NoData})
        /\ report[1] = Cardinality(RunEvents)
        /\ report[1] <= report[2]

\* the error-free 2xx outcome rows of the endpoint of worker w
SuccessRows(w) == {q \in Rows(w) : q.error = NoError /\ IsSuccess(q.status_code)}

\* C24: wherever another worker can run, an endpoint has as many RawEvent
\* rows as error-free 2xx outcome rows
C24_EventWithSuccessRow ==
    \A w \in Workers :
        UniqueEndpoint(w) => Cardinality(Events(w)) = Cardinality(SuccessRows(w))

\* C25: a worker takes its slot before its first limiter.wait() and gives it
\* back only in the step in which its fetch returns and its RawEvent, if
\* any, is written, the backoff sleeps in between included; with
\* max_concurrency = 1, of two workers that have started an attempt one has
\* finished
C25_SlotHeldThroughout ==
    [][ /\ \A w \in Workers :
              (~Holding(pc[w]) /\ Holding(pc'[w])) => (HasSlot(sem) /\ sem' = sem - 1)
        /\ \A w \in Workers :
              (Holding(pc[w]) /\ ~Holding(pc'[w])) =>
                  \/ main' = "failed"
                  \/ /\ pc'[w] = "done"
                     /\ sem' = sem + 1
                     /\ data'[w] # NoData =>
                            \E e \in raw_events' :
                                /\ e.endpoint_name = specs[w].name
                                /\ e.url = url[w]
                                /\ e.payload_json = data'[w]
        /\ sem' > sem =>
              \/ main = "setup"
              \/ main' = "failed"
              \/ \E w \in Workers : Holding(pc[w]) /\ pc'[w] = "done"
        /\ cfg.max_concurrency = 1 =>
              \A w \in Workers : \A v \in Workers :
                  (w # v /\ attempt'[w] >= 1 /\ attempt'[v] >= 1) =>
                      pc'[w] \in {"done", "cancelled"} \/ pc'[v] \in {"done", "cancelled"}
      ]_vars

C25_Witness ==
    /\ cfg.max_concurrency = 1
    /\ \E w \in Workers : \E v \in Workers :
          /\ pc[w] = "backoff" /\ attempt[w] = 1
          /\ pc[v] = "sem"

\* C26: for every interval of timestamps, the CollectionHealth of
\* request_log has total_requests = successful_requests + failed_requests
\* >= successful_requests, its successful rows are the rows without error,
\* and the row of an attempt counts as successful exactly when the attempt
\* took the branch that logs no error and returns the parsed body
C26_HealthCounts ==
    /\ \A a \in 0..MaxClock : \A b \in a..MaxClock :
          LET h == CollectionHealth(request_log, a, b)
          IN  /\ h.total_requests = h.successful_requests + h.failed_requests
              /\ h.total_requests >= h.successful_requests
              /\ h.successful_requests =
                    Cardinality({q \in request_log : a <= q.ts /\ q.ts <= b /\ q.error = NoError})
    /\ \A w \in Workers :
          (UniqueEndpoint(w) /\ Answered(w)) =>
              \A q \in RowsAt(w, attempt[w]) :
                  RowSucceeded(q) <=> Outcome(resp[w]) = SuccessOutcome(resp[w])

C26_Witness ==
    \E q1 \in request_log : \E q2 \in RunLog : \E q3 \in RunLog :
        /\ RowSucceeded(q1)
        /\ q2.error.prefix = "json_parse"
        /\ q3.status_code = None

====
